---- MODULE Spec2Model ----
(***************************************************************************)
(* LLM Writing Assistant: the word-level diff of frontend.py                *)
(* (generate_word_diff and the difflib matcher it calls), the Streamlit     *)
(* script of frontend.py with its session state, the gateway client of      *)
(* api.py and the /assist endpoint of backend.py.                           *)
(***************************************************************************)
EXTENDS Integers, Sequences, FiniteSets, TLC

(***************************************************************************)
(* Bounds of the model.                                                     *)
(***************************************************************************)
\* longest text, in characters, given to generate_word_diff
MaxLen == 4
\* calls of correct_text made by the one UI session
MaxCalls == 2

\* Characters of the texts: two letters and one whitespace character.
\* A text is a sequence of characters.
Letters == {"a", "b"}
Whitespace == {" "}
Chars == Letters \cup Whitespace

Texts(n) == UNION {[1..k -> Chars] : k \in 0..n}

(***************************************************************************)
(* Helpers on sequences.                                                    *)
(***************************************************************************)
RECURSIVE Concat(_)
\* ''.join(tokens)
Concat(ts) == IF ts = <<>> THEN <<>> ELSE Head(ts) \o Concat(Tail(ts))

Max(x, y) == IF x >= y THEN x ELSE y

(***************************************************************************)
(* re.findall(r'\S+|\s+', s): scanning left to right, each match is the     *)
(* maximal run of non-whitespace characters, or else the maximal run of     *)
(* whitespace characters, starting at the scan position.                    *)
(***************************************************************************)
IsSpace(c) == c \in Whitespace

RECURSIVE RunEnd(_, _, _)
\* the index of the last character of the run of class `sp` starting at p
RunEnd(s, p, sp) ==
    IF p < Len(s) /\ IsSpace(s[p + 1]) = sp THEN RunEnd(s, p + 1, sp) ELSE p

RECURSIVE FindAllFrom(_, _)
FindAllFrom(s, p) ==
    IF p > Len(s) THEN <<>>
    ELSE LET e == RunEnd(s, p, IsSpace(s[p]))
         IN  <<SubSeq(s, p, e)>> \o FindAllFrom(s, e + 1)

\* str.split() in place of the regular expression: the whitespace runs are lost
TokenizeSplit(s) ==
    SelectSeq(FindAllFrom(s, 1), LAMBDA tok : ~IsSpace(tok[1]))

Tokenize(s) == FindAllFrom(s, 1)

(***************************************************************************)
(* difflib.SequenceMatcher(None, a, b) as generate_word_diff uses it: no    *)
(* junk predicate, and sequences shorter than 200 elements, for which the   *)
(* popularity heuristic is off.  Indexes are Python's: element i of a is    *)
(* a[i + 1], and ranges are half open.                                      *)
(***************************************************************************)
RECURSIVE RunLenByLength(_, _, _, _, _, _)
\* tokens compared by their lengths instead of by their characters
RunLenByLength(a, b, i, j, alo, blo) ==
    IF Len(a[i + 1]) # Len(b[j + 1]) THEN 0
    ELSE IF i > alo /\ j > blo THEN 1 + RunLenByLength(a, b, i - 1, j - 1, alo, blo)
    ELSE 1

RECURSIVE RunLen(_, _, _, _, _, _)
\* j2len of find_longest_match: the length of the matching run that ends at
\* a[i], b[j] and lies inside a[alo:], b[blo:]
RunLen(a, b, i, j, alo, blo) ==
    IF a[i + 1] # b[j + 1] THEN 0
    ELSE IF i > alo /\ j > blo THEN 1 + RunLen(a, b, i - 1, j - 1, alo, blo)
    ELSE 1

\* find_longest_match(alo, ahi, blo, bhi): <<besti, bestj, bestsize>>; a run
\* replaces the best one only when strictly longer, the pairs being visited
\* with i ascending and, for each i, j ascending.
FindLongestMatch(a, b, alo, ahi, blo, bhi) ==
    LET Ends == {p \in (alo..(ahi - 1)) \X (blo..(bhi - 1)) :
                    RunLen(a, b, p[1], p[2], alo, blo) > 0}
        Size(p) == RunLen(a, b, p[1], p[2], alo, blo)
    IN  IF Ends = {} THEN <<alo, blo, 0>>
        ELSE LET best == CHOOSE p \in Ends :
                             \A q \in Ends :
                                 \/ Size(q) < Size(p)
                                 \/ /\ Size(q) = Size(p)
                                    /\ \/ p[1] < q[1]
                                       \/ p[1] = q[1] /\ p[2] <= q[2]
                 k == Size(best)
             IN  <<best[1] - k + 1, best[2] - k + 1, k>>

RECURSIVE MatchingBlocksIn(_, _, _, _, _, _)
\* the queue loop of get_matching_blocks followed by its sort: the blocks of
\* a[alo:ahi], b[blo:bhi] in increasing order
MatchingBlocksIn(a, b, alo, ahi, blo, bhi) ==
    LET x == FindLongestMatch(a, b, alo, ahi, blo, bhi)
        i == x[1]
        j == x[2]
        k == x[3]
    IN  IF k = 0 THEN <<>>
        ELSE (IF alo < i /\ blo < j
                THEN MatchingBlocksIn(a, b, alo, i, blo, j) ELSE <<>>)
             \o <<x>>
             \o (IF i + k < ahi /\ j + k < bhi
                   THEN MatchingBlocksIn(a, b, i + k, ahi, j + k, bhi) ELSE <<>>)

RECURSIVE CollapseAdjacent(_, _)
\* the second loop of get_matching_blocks: adjacent blocks become one
CollapseAdjacent(blocks, cur) ==
    IF blocks = <<>> THEN (IF cur[3] > 0 THEN <<cur>> ELSE <<>>)
    ELSE LET nx == Head(blocks)
         IN  IF cur[1] + cur[3] = nx[1] /\ cur[2] + cur[3] = nx[2]
               THEN CollapseAdjacent(Tail(blocks), <<cur[1], cur[2], cur[3] + nx[3]>>)
               ELSE (IF cur[3] > 0 THEN <<cur>> ELSE <<>>)
                    \o CollapseAdjacent(Tail(blocks), nx)

\* the blocks without the sentinel: what follows the last match is not reported
GetMatchingBlocksNoSentinel(a, b) ==
    CollapseAdjacent(MatchingBlocksIn(a, b, 0, Len(a), 0, Len(b)), <<0, 0, 0>>)

\* get_matching_blocks(): the collapsed blocks and the sentinel (la, lb, 0)
GetMatchingBlocks(a, b) ==
    CollapseAdjacent(MatchingBlocksIn(a, b, 0, Len(a), 0, Len(b)), <<0, 0, 0>>)
    \o <<<<Len(a), Len(b), 0>>>>

RECURSIVE OpcodesFromNoReplace(_, _, _)
\* a gap with tokens on both sides reported as a delete followed by an insert
OpcodesFromNoReplace(blocks, i, j) ==
    IF blocks = <<>> THEN <<>>
    ELSE LET ai == Head(blocks)[1]
             bj == Head(blocks)[2]
             size == Head(blocks)[3]
         IN  (IF i < ai THEN <<<<"delete", i, ai, j, j>>>> ELSE <<>>)
             \o (IF j < bj THEN <<<<"insert", ai, ai, j, bj>>>> ELSE <<>>)
             \o (IF size > 0
                   THEN <<<<"equal", ai, ai + size, bj, bj + size>>>> ELSE <<>>)
             \o OpcodesFromNoReplace(Tail(blocks), ai + size, bj + size)

RECURSIVE OpcodesFrom(_, _, _)
\* the loop of get_opcodes(): opcodes are <<tag, i1, i2, j1, j2>>
OpcodesFrom(blocks, i, j) ==
    IF blocks = <<>> THEN <<>>
    ELSE LET ai == Head(blocks)[1]
             bj == Head(blocks)[2]
             size == Head(blocks)[3]
             tag == IF i < ai /\ j < bj THEN "replace"
                    ELSE IF i < ai THEN "delete"
                    ELSE IF j < bj THEN "insert"
                    ELSE ""
         IN  (IF tag # "" THEN <<<<tag, i, ai, j, bj>>>> ELSE <<>>)
             \o (IF size > 0
                   THEN <<<<"equal", ai, ai + size, bj, bj + size>>>> ELSE <<>>)
             \o OpcodesFrom(Tail(blocks), ai + size, bj + size)

GetOpcodes(a, b) == OpcodesFrom(GetMatchingBlocks(a, b), 0, 0)

(***************************************************************************)
(* generate_word_diff: the loop over the opcodes.  A diff is a sequence of  *)
(* <<token, status>> pairs.                                                  *)
(***************************************************************************)
Tagged(words, lo, hi, status) ==
    [n \in 1..(hi - lo) |-> <<words[lo + n], status>>]

RECURSIVE OriginalDiffOf(_, _)
OriginalDiffOf(words, ops) ==
    IF ops = <<>> THEN <<>>
    ELSE LET op == Head(ops)
             part == CASE op[1] = "equal" -> Tagged(words, op[2], op[3], "unchanged")
                       [] op[1] = "delete" -> Tagged(words, op[2], op[3], "deleted")
                       [] op[1] = "insert" -> <<>>
                       [] op[1] = "replace" -> Tagged(words, op[2], op[3], "modified")
         IN  part \o OriginalDiffOf(words, Tail(ops))

RECURSIVE RevisedDiffOf(_, _)
RevisedDiffOf(words, ops) ==
    IF ops = <<>> THEN <<>>
    ELSE LET op == Head(ops)
             part == CASE op[1] = "equal" -> Tagged(words, op[4], op[5], "unchanged")
                       [] op[1] = "delete" -> <<>>
                       [] op[1] = "insert" -> Tagged(words, op[4], op[5], "added")
                       [] op[1] = "replace" -> Tagged(words, op[4], op[5], "modified")
         IN  part \o RevisedDiffOf(words, Tail(ops))

\* generate_word_diff(original, revised): <<original_diff, revised_diff>>
GenerateWordDiff(original, revised) ==
    LET original_words == Tokenize(original)
        revised_words == Tokenize(revised)
        ops == GetOpcodes(original_words, revised_words)
    IN  <<OriginalDiffOf(original_words, ops), RevisedDiffOf(revised_words, ops)>>

\* sum(1 for _, status in diff if status == st)
CountStatus(diff, st) == Cardinality({n \in 1..Len(diff) : diff[n][2] = st})

(***************************************************************************)
(* Texts of the session model: what the user types into the text area and   *)
(* what the model generates.                                                *)
(***************************************************************************)
InputTexts == {<<>>, <<" ">>, <<"a", " ", "b">>}
LLMTexts == {<<"a", " ", "a">>, <<" ", "a", " ", "b", " ">>}
Modes == {"full", "grammar"}

RECURSIVE LStrip(_)
LStrip(s) == IF s # <<>> /\ IsSpace(Head(s)) THEN LStrip(Tail(s)) ELSE s

RECURSIVE RStrip(_)
RStrip(s) ==
    IF s # <<>> /\ IsSpace(s[Len(s)]) THEN RStrip(SubSeq(s, 1, Len(s) - 1)) ELSE s

\* str.strip()
Strip(s) == RStrip(LStrip(s))

(***************************************************************************)
(* backend.py: the /assist endpoint.  A response is a record: its HTTP      *)
(* status, its detail (the parts of the detail string: a fixed prefix and   *)
(* the message of the exception) and its body (<<assisted_text>>, or <<>>). *)
(***************************************************************************)
\* what the inference backend can answer to the one POST of query_ollama
OllamaFailures == {"unreachable", "timeout", "non_2xx"}
OllamaOutcomes == {"ok", "missing_response_field"} \cup OllamaFailures

\* str(e) of the exception query_ollama raises on each outcome
ExceptionMessage(outcome) ==
    CASE outcome = "unreachable" -> "ConnectionError"
      [] outcome = "timeout" -> "ReadTimeout"
      [] outcome = "non_2xx" -> "HTTPError"
      [] outcome = "missing_response_field" -> "'response'"

\* validation without the strip()
IsEmptyInputNoStrip(text) == text = <<>>

\* original_text = data.text.strip(); if not original_text
IsEmptyInput(text) == Strip(text) = <<>>

\* the two prompt templates, followed by the stripped text
BuildPrompt(text, mode) ==
    <<IF mode = "grammar" THEN "grammar_template" ELSE "full_template", Strip(text)>>

EmptyInputResponse ==
    [status |-> 422, detail |-> <<"Empty text input.">>, body |-> <<>>]

\* a payload without the text field answered by its own status
ResponseOfSplitKinds(outcome, generated) ==
    IF outcome = "ok"
      THEN [status |-> 200, detail |-> <<>>, body |-> <<Strip(generated)>>]
      ELSE IF outcome = "missing_response_field"
      THEN [status |-> 502, detail |-> <<"Malformed response: ", ExceptionMessage(outcome)>>,
            body |-> <<>>]
      ELSE [status |-> 500, detail |-> <<"LLM error: ", ExceptionMessage(outcome)>>,
            body |-> <<>>]

\* the try/except around query_ollama: the response of assist_report
ResponseOf(outcome, generated) ==
    IF outcome = "ok"
      THEN [status |-> 200, detail |-> <<>>, body |-> <<Strip(generated)>>]
      ELSE [status |-> 500, detail |-> <<"LLM error: ", ExceptionMessage(outcome)>>,
            body |-> <<>>]

\* a failed attempt is tried once more
RetriesAfterFailure(outcome, calls) == outcome # "ok" /\ calls < 2

\* no retry policy: the exception of the one attempt is turned into the
\* response at once
Retries(outcome, calls) == FALSE

(***************************************************************************)
(* frontend.py: what the script shows below the handler.                    *)
(***************************************************************************)
HasResult(state) == "assisted_text" \in DOMAIN state

\* the Change Summary: <<added, modified, deleted>>, or <<>> when the texts
\* are equal and "No changes detected" is shown
ChangeSummary(state) ==
    IF state.original_text # state.assisted_text
      THEN LET d == GenerateWordDiff(state.original_text, state.assisted_text)
           IN  <<<<CountStatus(d[2], "added"), CountStatus(d[2], "modified"),
                   CountStatus(d[1], "deleted")>>>>
      ELSE <<>>

\* comparison_report: the diffs it counts are the lists emptied just above it
ComparisonReport(state, mode) ==
    LET original_diff == <<>>
        revised_diff == <<>>
    IN  [original |-> state.original_text,
         revised |-> state.assisted_text,
         mode |-> mode,
         added |-> CountStatus(revised_diff, "added"),
         modified |-> CountStatus(revised_diff, "modified"),
         deleted |-> CountStatus(original_diff, "deleted")]

(***************************************************************************)
(* State.                                                                   *)
(*                                                                          *)
(* The diff pipeline on its own: original, revised, the locals              *)
(* original_words and revised_words of generate_word_diff, its results and  *)
(* dpc.                                                                     *)
(*                                                                          *)
(* The session: session_state is st.session_state, a function from the keys *)
(* that are set to their texts.  Streamlit runs the script top to bottom on *)
(* every widget interaction.  runs are the script runs that can still act:  *)
(* a run that calls correct_text has the number of its call as its key      *)
(* (ncalls counts the calls), a run that makes no call has NoCall.          *)
(* requests are the /assist requests in flight, keyed by the run that       *)
(* posted them; OtherClient is the key of the request of another HTTP       *)
(* client, which posts one request at a time.  display is what the last     *)
(* completed run shows.  mode is the value of the mode radio.  writer is    *)
(* history: for each key of session_state, the call whose run wrote it      *)
(* last.                                                                    *)
(*                                                                          *)
(* Streamlit's handling of a widget interaction is the default one          *)
(* (runner.fastReruns): the running script is asked to stop and the new run *)
(* starts at once, on a thread of its own; the thread of the superseded run *)
(* goes on to its next yield point, and every statement that touches        *)
(* st.session_state or shows an element is one, so that it writes and shows *)
(* nothing from then on.                                                    *)
(***************************************************************************)
VARIABLES original, revised, original_words, revised_words,
          original_diff, revised_diff, dpc,
          session_state, runs, ncalls, requests, display, mode, writer

diffvars == <<original, revised, original_words, revised_words,
              original_diff, revised_diff, dpc>>
sessvars == <<session_state, runs, ncalls, requests, display, mode,
              writer>>
vars == <<diffvars, sessvars>>

NoDisplay == [summary |-> <<>>, report |-> <<>>]

DiffIdle ==
    /\ original = <<>>
    /\ revised = <<>>
    /\ original_words = <<>>
    /\ revised_words = <<>>
    /\ original_diff = <<>>
    /\ revised_diff = <<>>
    /\ dpc = "idle"

SessionIdle ==
    /\ session_state = <<>>
    /\ runs = <<>>
    /\ ncalls = 0
    /\ requests = <<>>
    /\ display = NoDisplay
    /\ mode = "full"
    /\ writer = <<>>

(***************************************************************************)
(* The diff pipeline on its own: generate_word_diff applied to every pair   *)
(* of texts of at most MaxLen characters.                                   *)
(***************************************************************************)
DiffInit ==
    /\ original \in Texts(MaxLen)
    /\ revised \in Texts(MaxLen)
    /\ original_words = <<>>
    /\ revised_words = <<>>
    /\ original_diff = <<>>
    /\ revised_diff = <<>>
    /\ dpc = "call"
    /\ SessionIdle

\* one call of generate_word_diff(original, revised)
GenerateWordDiffCall ==
    /\ dpc = "call"
    /\ original_words' = Tokenize(original)
    /\ revised_words' = Tokenize(revised)
    /\ LET d == GenerateWordDiff(original, revised)
       IN  /\ original_diff' = d[1]
           /\ revised_diff' = d[2]
    /\ dpc' = "returned"
    /\ UNCHANGED <<original, revised>>
    /\ UNCHANGED sessvars

SpecDiff == DiffInit /\ [][GenerateWordDiffCall]_vars

(***************************************************************************)
(* The session.                                                             *)
(***************************************************************************)
Init ==
    /\ DiffIdle
    /\ SessionIdle

\* f with key k set to v, and f without key k
Put(f, k, v) == [x \in DOMAIN f \cup {k} |-> IF x = k THEN v ELSE f[x]]
Drop(f, k) == [x \in DOMAIN f \ {k} |-> f[x]]

\* a run that waits in correct_text taken not to occupy the session
OccupiesSessionExceptInCall(r) ==
    r.connected /\ r.pc \in {"store_original", "store_assisted", "render"}

\* correct_text blocks the script: a run occupies the session from its start
\* to the end of the script, unless a rerun has superseded it
OccupiesSession(r) ==
    r.connected /\ r.pc \in {"calling", "store_original", "store_assisted", "render"}

ActiveRuns == {i \in DOMAIN runs : OccupiesSession(runs[i])}

\* the run the script starts with: the button's branch down to the POST of
\* correct_text
NewRun(button, text, md) ==
    [button |-> button, text |-> text, mode |-> md, connected |-> TRUE,
     returned |-> <<>>,
     pc |-> IF button /\ Strip(text) # <<>> THEN "calling" ELSE "render",
     warned |-> button /\ Strip(text) = <<>>]

NewRequest(text, md) ==
    [text |-> text, mode |-> md, pc |-> "received",
     prompt |-> <<>>, ollama_calls |-> 0, outcome |-> "",
     response |-> <<>>]

\* the keys that are no call's number
NoCall == MaxCalls + 1
OtherClient == MaxCalls + 2

\* the script starts from the top with the widget values of the interaction
StartRun(rs, button, text, md) ==
    LET r == NewRun(button, text, md)
    IN  IF r.pc = "calling"
          THEN /\ ncalls' = ncalls + 1
               /\ runs' = Put(rs, ncalls + 1, r)
               /\ requests' = Put(requests, ncalls + 1, NewRequest(text, md))
          ELSE /\ runs' = Put(rs, NoCall, r)
               /\ UNCHANGED <<ncalls, requests>>

\* the runs left when the runs of `active` are superseded: one that waits in
\* correct_text goes on waiting, cut off from the session state; one at a
\* later statement stops there, which is a yield point
Supersede(active) ==
    [i \in {j \in DOMAIN runs : j \in active => runs[j].pc = "calling"} |->
        IF i \in active THEN [runs[i] EXCEPT !.connected = FALSE] ELSE runs[i]]

\* a widget interaction: Streamlit reruns the script with the widgets'
\* values, superseding the run in progress
Rerun(button, text, md) ==
    /\ NewRun(button, text, md).pc = "calling" => ncalls < MaxCalls
    /\ mode' = md
    /\ StartRun(Supersede(ActiveRuns), button, text, md)
    /\ UNCHANGED <<session_state, display, writer>>
    /\ UNCHANGED diffvars

\* the user presses "Get Assistance", the text area holding `text`
GetAssistance(text) == Rerun(TRUE, text, mode)

\* the user selects the other mode (the text of the text area plays no part
\* in a run whose button is not pressed)
SelectMode(md) == md # mode /\ Rerun(FALSE, <<>>, md)

\* the texts the UI never posts: the other client's
RejectedTexts == {t \in InputTexts : Strip(t) = <<>>}

\* another HTTP client posts to /assist, leaving the mode to its default
DirectPost(text) ==
    /\ OtherClient \notin DOMAIN requests
    /\ requests' = Put(requests, OtherClient, NewRequest(text, "full"))
    /\ UNCHANGED <<session_state, runs, ncalls, display, mode, writer>>
    /\ UNCHANGED diffvars

\* that client receives its response
DirectReceive ==
    /\ OtherClient \in DOMAIN requests
    /\ requests[OtherClient].pc = "done"
    /\ requests' = Drop(requests, OtherClient)
    /\ UNCHANGED <<session_state, runs, ncalls, display, mode, writer>>
    /\ UNCHANGED diffvars

\* assist_report down to the POST of query_ollama.  The handler is a
\* coroutine that blocks in requests.post, so the server takes no other
\* request while one waits for the inference backend.
AssistReport(k) ==
    /\ requests[k].pc = "received"
    /\ \A n \in DOMAIN requests : requests[n].pc # "querying"
    /\ requests' =
         [requests EXCEPT ![k] =
            IF IsEmptyInput(requests[k].text)
              THEN [@ EXCEPT !.pc = "done", !.response = <<EmptyInputResponse>>]
              ELSE [@ EXCEPT !.pc = "querying",
                             !.prompt = <<BuildPrompt(requests[k].text, requests[k].mode)>>,
                             !.ollama_calls = @ + 1]]
    /\ UNCHANGED <<session_state, runs, ncalls, display, mode, writer>>
    /\ UNCHANGED diffvars

\* the inference backend answers (or the attempt fails) and assist_report
\* ends with its response
QueryOllamaReturns(k, outcome, generated) ==
    /\ requests[k].pc = "querying"
    /\ requests' =
         [requests EXCEPT ![k] =
            IF Retries(outcome, requests[k].ollama_calls)
              THEN [@ EXCEPT !.ollama_calls = @ + 1]
              ELSE [@ EXCEPT !.pc = "done", !.outcome = outcome,
                             !.response = <<ResponseOf(outcome, generated)>>]]
    /\ UNCHANGED <<session_state, runs, ncalls, display, mode, writer>>
    /\ UNCHANGED diffvars

\* correct_text returns: raise_for_status() raises on a 4xx or 5xx answer
\* and the script run ends with the exception, else the assisted text is
\* returned.  A superseded run ends at its next yield point, the spinner's
\* exit or the assignment after it, having written nothing.
CorrectTextReturns(i) ==
    /\ runs[i].pc = "calling"
    /\ requests[i].pc = "done"
    /\ LET resp == requests[i].response[1]
       IN  runs' = IF resp.status >= 400 \/ ~runs[i].connected
                     THEN Drop(runs, i)
                     ELSE [runs EXCEPT ![i].pc = "store_original",
                                       ![i].returned = resp.body]
    /\ requests' = Drop(requests, i)
    /\ UNCHANGED <<session_state, ncalls, display, mode, writer>>
    /\ UNCHANGED diffvars

\* st.session_state.original_text = original_text
StoreOriginalText(i) ==
    /\ runs[i].pc = "store_original"
    /\ runs[i].connected
    /\ session_state' = Put(session_state, "original_text", runs[i].text)
    /\ writer' = Put(writer, "original_text", i)
    /\ runs' = [runs EXCEPT ![i].pc = "store_assisted"]
    /\ UNCHANGED <<ncalls, requests, display, mode>>
    /\ UNCHANGED diffvars

\* st.session_state.assisted_text = assisted_text
StoreAssistedText(i) ==
    /\ runs[i].pc = "store_assisted"
    /\ runs[i].connected
    /\ session_state' = Put(session_state, "assisted_text", runs[i].returned[1])
    /\ writer' = Put(writer, "assisted_text", i)
    /\ runs' = [runs EXCEPT ![i].pc = "render"]
    /\ UNCHANGED <<ncalls, requests, display, mode>>
    /\ UNCHANGED diffvars

\* the rest of the script: the results, the diff viewer, the Change Summary
\* and the export buttons
RenderResults(i) ==
    /\ runs[i].pc = "render"
    /\ runs[i].connected
    /\ runs' = Drop(runs, i)
    /\ display' =
         IF HasResult(session_state)
         THEN [summary |-> ChangeSummary(session_state),
               report |-> <<ComparisonReport(session_state, runs[i].mode)>>]
         ELSE NoDisplay
    /\ UNCHANGED <<session_state, ncalls, requests, mode, writer>>
    /\ UNCHANGED diffvars

Next ==
    \/ \E t \in InputTexts : GetAssistance(t)
    \/ \E m \in Modes : SelectMode(m)
    \/ \E t \in RejectedTexts : DirectPost(t)
    \/ DirectReceive
    \/ \E k \in DOMAIN requests : AssistReport(k)
    \/ \E k \in DOMAIN requests, g \in LLMTexts : QueryOllamaReturns(k, "ok", g)
    \/ \E k \in DOMAIN requests, o \in OllamaOutcomes \ {"ok"} :
           QueryOllamaReturns(k, o, <<>>)
    \/ \E i \in DOMAIN runs : CorrectTextReturns(i)
    \/ \E i \in DOMAIN runs : StoreOriginalText(i)
    \/ \E i \in DOMAIN runs : StoreAssistedText(i)
    \/ \E i \in DOMAIN runs : RenderResults(i)

Spec == Init /\ [][Next]_vars

(***************************************************************************)
(* Properties of the diff pipeline.                                         *)
(***************************************************************************)
RECURSIVE LcsLen(_, _)
\* the length of a longest common subsequence of a and b
LcsLen(a, b) ==
    IF a = <<>> \/ b = <<>> THEN 0
    ELSE IF Head(a) = Head(b) THEN 1 + LcsLen(Tail(a), Tail(b))
    ELSE Max(LcsLen(Tail(a), b), LcsLen(a, Tail(b)))

TokensOf(diff) == [n \in 1..Len(diff) |-> diff[n][1]]
UnchangedOf(diff) == TokensOf(SelectSeq(diff, LAMBDA e : e[2] = "unchanged"))

\* C1 as stated: the number of tokens tagged 'unchanged', on either side, is
\* the length of a longest common subsequence of the two token sequences.
C1_UnchangedCountIsLcs ==
    dpc = "returned" =>
        /\ CountStatus(original_diff, "unchanged") = LcsLen(original_words, revised_words)
        /\ CountStatus(revised_diff, "unchanged") = LcsLen(original_words, revised_words)

\* C1 amended: the tokens tagged 'unchanged' are, in order, the same tokens on
\* both sides (a common subsequence of the two token sequences under exact
\* equality), so that their number is at most the length of a longest common
\* subsequence; it can be smaller.
C1_UnchangedIsCommonSubsequence ==
    dpc = "returned" =>
        /\ UnchangedOf(original_diff) = UnchangedOf(revised_diff)
        /\ CountStatus(original_diff, "unchanged") <= LcsLen(original_words, revised_words)

\* a pair on which the alignment keeps fewer tokens than a longest common
\* subsequence has
C1_Witness ==
    /\ dpc = "returned"
    /\ CountStatus(original_diff, "unchanged") >= 1
    /\ CountStatus(original_diff, "unchanged") < LcsLen(original_words, revised_words)

\* C2: the tokens of originalDiff are, in order, the tokens of the original
\* text, and those of revisedDiff the tokens of the revised text: nothing is
\* dropped, duplicated or reordered.
C2_DiffsCarryAllTokens ==
    dpc = "returned" =>
        /\ TokensOf(original_diff) = original_words
        /\ TokensOf(revised_diff) = revised_words
        /\ Len(original_diff) = Len(original_words)
        /\ Len(revised_diff) = Len(revised_words)

\* a call whose opcodes are of all four kinds
C2_Witness ==
    /\ dpc = "returned"
    /\ CountStatus(original_diff, "unchanged") >= 1
    /\ CountStatus(original_diff, "deleted") >= 1
    /\ CountStatus(original_diff, "modified") >= 1
    /\ CountStatus(revised_diff, "added") >= 1

IsRun(tok) ==
    /\ tok # <<>>
    /\ \A n \in 1..Len(tok) : IsSpace(tok[n]) = IsSpace(tok[1])

\* C3: the tokens are the maximal whitespace and non-whitespace runs of the
\* text, left to right, and concatenate back to the text exactly; the empty
\* text has no tokens.
C3_TokenizerRoundTrip ==
    dpc = "returned" =>
        /\ Concat(original_words) = original
        /\ Concat(revised_words) = revised
        /\ original = <<>> => original_words = <<>>
        /\ \A n \in 1..Len(original_words) : IsRun(original_words[n])
        /\ \A n \in 1..(Len(original_words) - 1) :
               IsSpace(original_words[n][1]) # IsSpace(original_words[n + 1][1])

\* a text that starts with repeated whitespace and goes on with a word and
\* more whitespace has been tokenized
C3_Witness ==
    /\ dpc = "returned"
    /\ Len(original_words) >= 3
    /\ IsSpace(original_words[1][1])
    /\ Len(original_words[1]) >= 2

\* the changed tokens of a diff that stand after exactly g unchanged tokens
GapOf(diff, g) ==
    {n \in 1..Len(diff) :
        /\ diff[n][2] # "unchanged"
        /\ Cardinality({m \in 1..(n - 1) : diff[m][2] = "unchanged"}) = g}

\* C4: a gap between matched runs with k >= 1 original tokens opposite k
\* revised tokens is one replace: all its tokens are 'modified' on both
\* sides, none 'deleted' or 'added'.
C4_EqualLengthGapIsReplace ==
    dpc = "returned" =>
        \A g \in 0..Len(original_diff) :
            LET og == GapOf(original_diff, g)
                rg == GapOf(revised_diff, g)
            IN  (Cardinality(og) = Cardinality(rg) /\ Cardinality(og) >= 1) =>
                    /\ \A n \in og : original_diff[n][2] = "modified"
                    /\ \A n \in rg : revised_diff[n][2] = "modified"

\* a gap of one token opposite one token, between two matched runs
C4_Witness ==
    /\ dpc = "returned"
    /\ \E g \in 1..Len(original_diff) :
           /\ Cardinality(GapOf(original_diff, g)) = 1
           /\ Cardinality(GapOf(revised_diff, g)) = 1
           /\ CountStatus(original_diff, "unchanged") > g
(***************************************************************************)
(* Properties of the session and of the gateway.                            *)
(***************************************************************************)
Blank(text) == \A n \in 1..Len(text) : text[n] \in Whitespace

\* C5: a request whose text is empty after trimming ends with the 422
\* validation error and the inference backend is never called for it; and
\* the UI posts no request for a blank text.
C5_BlankTextNeverReachesBackend ==
    /\ \A k \in DOMAIN requests :
           Blank(requests[k].text) =>
               /\ requests[k].pc # "querying"
               /\ requests[k].ollama_calls = 0
               /\ requests[k].pc = "done" =>
                      /\ requests[k].response[1].status = 422
                      /\ requests[k].response[1].body = <<>>
    /\ \A i \in DOMAIN runs :
           (runs[i].button /\ Blank(runs[i].text)) =>
               /\ runs[i].pc # "calling"
               /\ runs[i].warned
               /\ i \notin DOMAIN requests
    /\ \A k \in DOMAIN requests : k # OtherClient => ~Blank(requests[k].text)

\* a whitespace-only request answered with 422 while the UI warns about a
\* blank text
C5_Witness ==
    /\ OtherClient \in DOMAIN requests
    /\ requests[OtherClient].text # <<>>
    /\ requests[OtherClient].pc = "done"
    /\ requests[OtherClient].response[1].status = 422
    /\ NoCall \in DOMAIN runs
    /\ runs[NoCall].warned
    /\ runs[NoCall].text # <<>>

\* C6: a validated request makes exactly one attempt against the inference
\* backend; when that attempt is unreachable, times out or is answered with
\* a non-2xx status, the request ends with a 500 whose detail is
\* 'LLM error: <message>' and without assisted text.
C6_SingleAttemptThenLLMError ==
    \A k \in DOMAIN requests :
        /\ requests[k].ollama_calls <= 1
        /\ (~Blank(requests[k].text) /\ requests[k].pc \in {"querying", "done"}) =>
               requests[k].ollama_calls = 1
        /\ (requests[k].pc = "done" /\ requests[k].outcome \in OllamaFailures) =>
               /\ requests[k].response[1].status = 500
               /\ requests[k].response[1].detail =
                      <<"LLM error: ", ExceptionMessage(requests[k].outcome)>>
               /\ requests[k].response[1].body = <<>>

\* a request whose one attempt timed out, answered
C6_Witness ==
    \E k \in DOMAIN requests :
        /\ requests[k].pc = "done"
        /\ requests[k].outcome = "timeout"
        /\ requests[k].ollama_calls = 1

\* the kind of an error response: its status and the fixed part of its detail
ErrorKind(resp) == <<resp.status, resp.detail[1]>>

\* C7 as stated: the response to a 2xx answer without the 'response' field
\* is of another error kind than the response to an unreachable, timed out
\* or non-2xx backend.
C7_MalformedIsAnotherKind ==
    \A k1, k2 \in DOMAIN requests :
        (/\ requests[k1].pc = "done"
         /\ requests[k2].pc = "done"
         /\ requests[k1].outcome = "missing_response_field"
         /\ requests[k2].outcome \in OllamaFailures) =>
            ErrorKind(requests[k1].response[1]) # ErrorKind(requests[k2].response[1])

\* C7 amended: a 2xx answer without the 'response' field ends the request
\* like an unreachable, timed out or non-2xx backend does, with a 500 whose
\* detail is 'LLM error: <message>' and without assisted text; only the
\* message, the name of the missing field, tells it apart.
C7_MalformedIsLLMErrorToo ==
    \A k \in DOMAIN requests :
        (requests[k].pc = "done" /\ requests[k].outcome = "missing_response_field") =>
            /\ requests[k].response[1].status = 500
            /\ requests[k].response[1].detail = <<"LLM error: ", "'response'">>
            /\ requests[k].response[1].body = <<>>
            /\ \A k2 \in DOMAIN requests :
                   (requests[k2].pc = "done" /\ requests[k2].outcome \in OllamaFailures) =>
                       /\ ErrorKind(requests[k2].response[1]) =
                              ErrorKind(requests[k].response[1])
                       /\ requests[k2].response[1].detail # requests[k].response[1].detail

\* two answered requests, one after a malformed payload and one after a
\* failed attempt
C7_Witness ==
    \E k1, k2 \in DOMAIN requests :
        /\ requests[k1].pc = "done"
        /\ requests[k2].pc = "done"
        /\ requests[k1].outcome = "missing_response_field"
        /\ requests[k2].outcome \in OllamaFailures

\* C8: the comparison report's Added, Modified and Deleted figures are the
\* numbers of tokens generate_word_diff tags 'added', 'modified' and
\* 'deleted' on the pair the report shows, the figures of the Change Summary.
C8_ReportCountsAreTheDiffCounts ==
    display.report # <<>> =>
        LET r == display.report[1]
            d == GenerateWordDiff(r.original, r.revised)
        IN  /\ r.added = CountStatus(d[2], "added")
            /\ r.modified = CountStatus(d[2], "modified")
            /\ r.deleted = CountStatus(d[1], "deleted")
            /\ display.summary # <<>> =>
                   display.summary[1] = <<r.added, r.modified, r.deleted>>

\* the runs whose call of correct_text has not returned and which can still
\* write to the session state
LiveCalls == {i \in DOMAIN runs : runs[i].pc = "calling" /\ runs[i].connected}

C10_SlotHoldsOneSubmission ==
    (HasResult(session_state) /\ \A i \in DOMAIN runs : runs[i].pc # "store_assisted") =>
        writer["original_text"] = writer["assisted_text"]
====
